---- MODULE Spec2Model ----
(***************************************************************************)
(* Model of the config-file crate (src/src/lib.rs, src/src/error.rs):       *)
(* extension -> format resolution, and the load / store dispatch over a     *)
(* small filesystem.  The codecs (serde_json, toml, quick_xml, serde_yml,   *)
(* ron) are external; they are modelled as a token encoding that differs    *)
(* per format and whose length depends on the record.                       *)
(***************************************************************************)
EXTENDS Integers, Sequences, FiniteSets, TLC

VARIABLES fs, call, res, proc, overlapped, ext

vars == <<fs, call, res, proc, overlapped, ext>>

(***************************************************************************)
(* Bounds                                                                   *)
(***************************************************************************)
\* depth of the directory chain a/b/... under which the deepest path lives
MaxDepth == 2
\* largest number of elements of the record's variable-length field
MaxTags == 1

(***************************************************************************)
(* ConfigFormat and the format resolver                                     *)
(***************************************************************************)
ConfigFormat == {"Json", "Toml", "Xml", "Yaml", "Ron"}

NoFormat == "None"

\* the cargo features; the default build enables every codec
EnabledFormats == ConfigFormat

LowerTable ==
    ("A" :> "a") @@ ("J" :> "j") @@ ("L" :> "l") @@ ("M" :> "m") @@
    ("N" :> "n") @@ ("O" :> "o") @@ ("R" :> "r") @@ ("S" :> "s") @@
    ("T" :> "t") @@ ("X" :> "x") @@ ("Y" :> "y")

\* str::to_lowercase, over the letters the model uses
to_lowercase(s) ==
    [i \in 1..Len(s) |-> IF s[i] \in DOMAIN LowerTable THEN LowerTable[s[i]] ELSE s[i]]

from_extension_case_sensitive(extension) ==
    CASE extension = <<"j","s","o","n">> /\ "Json" \in EnabledFormats -> "Json"
      [] extension = <<"t","o","m","l">> /\ "Toml" \in EnabledFormats -> "Toml"
      [] extension = <<"x","m","l">> /\ "Xml" \in EnabledFormats -> "Xml"
      [] extension \in {<<"y","a","m","l">>, <<"y","m","l">>}
           /\ "Yaml" \in EnabledFormats -> "Yaml"
      [] extension = <<"r","o","n">> /\ "Ron" \in EnabledFormats -> "Ron"
      [] OTHER -> NoFormat

from_extension(extension) ==
    LET e == to_lowercase(extension) IN
    CASE e = <<"j","s","o","n">> /\ "Json" \in EnabledFormats -> "Json"
      [] e = <<"t","o","m","l">> /\ "Toml" \in EnabledFormats -> "Toml"
      [] e = <<"x","m","l">> /\ "Xml" \in EnabledFormats -> "Xml"
      [] e \in {<<"y","a","m","l">>, <<"y","m","l">>}
           /\ "Yaml" \in EnabledFormats -> "Yaml"
      [] e = <<"r","o","n">> /\ "Ron" \in EnabledFormats -> "Ron"
      [] OTHER -> NoFormat

\* positions of '.' in a file name
DotPositions(name) == {i \in 1..Len(name) : name[i] = "."}

LastDot(name) == CHOOSE i \in DotPositions(name) : \A j \in DotPositions(name) : j <= i

\* Path::extension of a path whose file name is `name`: the part after the
\* last '.', absent when there is no '.', when the only '.' is the first
\* character, or when the name is "..".  <<FALSE, <<>>>> is Option::None.
extension(name) ==
    IF name = <<".", ".">> \/ DotPositions(name) = {} \/ LastDot(name) = 1
    THEN [some |-> FALSE, str |-> <<>>]
    ELSE [some |-> TRUE, str |-> SubSeq(name, LastDot(name) + 1, Len(name))]

from_path(name) ==
    IF extension(name).some THEN from_extension(extension(name).str) ELSE NoFormat

(***************************************************************************)
(* Records and codecs                                                       *)
(***************************************************************************)
Zeros(n) == [i \in 1..n |-> "0"]

\* The record is its variable-length field (TestConfig.tags).  An element
\* "nan" is a value no codec can serialize; it only ever comes last.
Records ==
    {Zeros(n) : n \in 0..MaxTags} \cup {Append(Zeros(n - 1), "nan") : n \in 1..MaxTags}

\* Default::default()
DefaultRecord == <<>>

Encodable(r) == \A i \in 1..Len(r) : r[i] # "nan"

\* what the codec of format F prints for r
Encode(F, r) == <<F>> \o r \o <<"end">>

\* what a serializer writing straight into the file has emitted when it
\* reaches the element it cannot serialize
Emitted(F, r) ==
    LET bad == CHOOSE i \in 1..Len(r) : r[i] = "nan" /\ \A j \in 1..(i - 1) : r[j] # "nan"
    IN <<F>> \o SubSeq(r, 1, bad - 1)

\* what the codec of format F parses from the whole content c
Decode(F, c) ==
    IF /\ Len(c) >= 2
       /\ c[1] = F
       /\ c[Len(c)] = "end"
       /\ \A i \in 2..(Len(c) - 1) : c[i] = "0"
    THEN [ok |-> TRUE, val |-> SubSeq(c, 2, Len(c) - 1)]
    ELSE [ok |-> FALSE, val |-> <<>>]

(***************************************************************************)
(* Result<T, Error>                                                         *)
(***************************************************************************)
Ok(some, val) == [tag |-> "Ok", kind |-> "", sub |-> "", some |-> some, val |-> val]

OkUnit == Ok(FALSE, <<>>)

OkNone == Ok(FALSE, <<>>)

OkSome(r) == Ok(TRUE, r)

Err(kind, sub) == [tag |-> "Err", kind |-> kind, sub |-> sub, some |-> FALSE, val |-> <<>>]

\* Error::FileAccess(io) with the io::ErrorKind
FileAccess(io) == Err("FileAccess", io)

FileExists == Err("FileExists", "")

UnsupportedFormat == Err("UnsupportedFormat", "")

\* Error::Json / Toml / Xml / Yaml / Ron wrapping the codec's error
DeserializationError(F) == Err(F, "DeserializationError")

SerializationError(F) == Err(F, "SerializationError")

(***************************************************************************)
(* The filesystem                                                           *)
(***************************************************************************)
\* a/b/.../c.Json, below the whole directory chain
DeepPath == [lvl |-> MaxDepth, name |-> <<"c", ".", "J", "s", "o", "n">>]

\* a/.toml: a dot file, which has no extension
DotPath == [lvl |-> 1, name |-> <<".", "t", "o", "m", "l">>]

Paths == {DeepPath, DotPath}

Absent == [kind |-> "absent", data |-> <<>>]

File(data) == [kind |-> "file", data |-> data]

\* a file without read or write permission
Locked(data) == [kind |-> "locked", data |-> data]

\* whether the io::ErrorKind of walking to p's parent directory
ChainError(f, p) ==
    IF p.lvl <= f.dirs THEN "Ok"
    ELSE IF f.blocker THEN "NotADirectory"
    ELSE "NotFound"

\* Path::exists
exists(f, p) == ChainError(f, p) = "Ok" /\ f.node[p].kind # "absent"

\* File::open followed by reading the whole file
open_file_create(f, p) ==
    IF ChainError(f, p) # "Ok" THEN [kind |-> ChainError(f, p), data |-> <<>>, fs |-> f]
    ELSE IF f.node[p].kind = "locked" THEN [kind |-> "PermissionDenied", data |-> <<>>, fs |-> f]
    ELSE IF f.node[p].kind = "absent"
    THEN [kind |-> "Ok", data |-> <<>>, fs |-> [f EXCEPT !.node[p] = File(<<>>)]]
    ELSE [kind |-> "Ok", data |-> f.node[p].data, fs |-> f]

open_file(f, p) ==
    IF ChainError(f, p) # "Ok" THEN [kind |-> ChainError(f, p), data |-> <<>>, fs |-> f]
    ELSE IF f.node[p].kind = "absent" THEN [kind |-> "NotFound", data |-> <<>>, fs |-> f]
    ELSE IF f.node[p].kind = "locked" THEN [kind |-> "PermissionDenied", data |-> <<>>, fs |-> f]
    ELSE [kind |-> "Ok", data |-> f.node[p].data, fs |-> f]

\* whether the bytes are valid UTF-8; "0xFF" is a byte that is not
ValidUtf8(data) == \A i \in 1..Len(data) : data[i] # "0xFF"

\* std::fs::read_to_string: reads the file and checks that it is UTF-8
read_to_string(f, p) ==
    LET o == open_file(f, p) IN
    IF o.kind = "Ok" /\ ~ValidUtf8(o.data)
    THEN [kind |-> "InvalidData", data |-> <<>>, fs |-> o.fs]
    ELSE o

\* std::fs::create_dir_all of p's parent
create_dir_all(f, p) ==
    IF p.lvl <= f.dirs THEN [kind |-> "Ok", fs |-> f]
    ELSE IF f.blocker THEN [kind |-> "NotADirectory", fs |-> f]
    ELSE [kind |-> "Ok", fs |-> [f EXCEPT !.dirs = p.lvl]]

\* OpenOptions::new().write(true).create(true).truncate(true).open(p)
open_truncate(f, p) ==
    IF ChainError(f, p) # "Ok" THEN [kind |-> ChainError(f, p), fs |-> f]
    ELSE IF f.node[p].kind = "locked" THEN [kind |-> "PermissionDenied", fs |-> f]
    ELSE [kind |-> "Ok", fs |-> [f EXCEPT !.node[p] = File(<<>>)]]

\* the same without truncate(true)
open_keep(f, p) ==
    IF ChainError(f, p) # "Ok" THEN [kind |-> ChainError(f, p), fs |-> f]
    ELSE IF f.node[p].kind = "locked" THEN [kind |-> "PermissionDenied", fs |-> f]
    ELSE [kind |-> "Ok", fs |-> [f EXCEPT !.node[p] = File(f.node[p].data)]]

\* the same with create_new(true)
open_new(f, p) ==
    IF ChainError(f, p) # "Ok" THEN [kind |-> ChainError(f, p), fs |-> f]
    ELSE IF f.node[p].kind # "absent" THEN [kind |-> "AlreadyExists", fs |-> f]
    ELSE [kind |-> "Ok", fs |-> [f EXCEPT !.node[p] = File(<<>>)]]

\* Write::write_all on a file just opened: from offset 0, over what is there
write_all(f, p, data) ==
    LET old == f.node[p].data
    IN [f EXCEPT !.node[p] = File(data \o SubSeq(old, Len(data) + 1, Len(old)))]

open_write_file_no_truncate(f, p) ==
    LET d == create_dir_all(f, p) IN
    IF d.kind # "Ok" THEN [res |-> FileAccess(d.kind), fs |-> d.fs]
    ELSE LET o == open_keep(d.fs, p) IN
         [res |-> IF o.kind = "Ok" THEN OkUnit ELSE FileAccess(o.kind), fs |-> o.fs]

open_write_file_create_new(f, p) ==
    LET d == create_dir_all(f, p) IN
    IF d.kind # "Ok" THEN [res |-> FileAccess(d.kind), fs |-> d.fs]
    ELSE LET o == open_new(d.fs, p) IN
         [res |-> IF o.kind = "Ok" THEN OkUnit ELSE FileAccess(o.kind), fs |-> o.fs]

open_write_file(f, p) ==
    LET d == create_dir_all(f, p) IN
    IF d.kind # "Ok" THEN [res |-> FileAccess(d.kind), fs |-> d.fs]
    ELSE LET o == open_truncate(d.fs, p) IN
         [res |-> IF o.kind = "Ok" THEN OkUnit ELSE FileAccess(o.kind), fs |-> o.fs]

\* std::fs::write: create, truncate and write, in the directory as it is
fs_write(f, p, data) ==
    LET o == open_truncate(f, p) IN
    IF o.kind # "Ok" THEN [res |-> FileAccess(o.kind), fs |-> o.fs]
    ELSE [res |-> OkUnit, fs |-> write_all(o.fs, p, data)]

(***************************************************************************)
(* LoadConfigFile                                                           *)
(***************************************************************************)
\* not_found_to_none!: [none, err] of an io::Result; neither set means Ok
not_found_to_none_any_error(io) ==
    [none |-> io.kind # "Ok", err |-> FALSE]

not_found_to_none(io) ==
    [none |-> io.kind = "NotFound", err |-> io.kind \notin {"Ok", "NotFound"}]

load_with_specific_format(f, p, config_type) ==
    LET io == IF config_type = "Toml" THEN read_to_string(f, p) ELSE open_file(f, p)
        n == not_found_to_none(io)
        d == Decode(config_type, io.data)
    IN IF config_type \notin EnabledFormats THEN [res |-> UnsupportedFormat, fs |-> f]
       ELSE IF n.err THEN [res |-> FileAccess(io.kind), fs |-> io.fs]
       ELSE IF n.none THEN [res |-> OkNone, fs |-> io.fs]
       ELSE IF d.ok THEN [res |-> OkSome(d.val), fs |-> io.fs]
       ELSE [res |-> DeserializationError(config_type), fs |-> io.fs]

load_assume_json(f, p) ==
    IF from_path(p.name) = NoFormat THEN load_with_specific_format(f, p, "Json")
    ELSE load_with_specific_format(f, p, from_path(p.name))

load(f, p) ==
    IF from_path(p.name) = NoFormat THEN [res |-> UnsupportedFormat, fs |-> f]
    ELSE load_with_specific_format(f, p, from_path(p.name))

load_or_default_on_error(f, p) ==
    LET l == load(f, p) IN
    IF l.res.tag = "Ok" /\ l.res.some THEN l
    ELSE [res |-> OkSome(DefaultRecord), fs |-> l.fs]

\* Result::map(Option::unwrap_or_default)
load_or_default(f, p) ==
    LET l == load(f, p) IN
    IF l.res.tag = "Ok"
    THEN [res |-> OkSome(IF l.res.some THEN l.res.val ELSE DefaultRecord), fs |-> l.fs]
    ELSE l

(***************************************************************************)
(* StoreConfigFile                                                          *)
(***************************************************************************)
\* Json, Yaml: the serializer writes into the file open_write_file returns
store_to_writer(f, r, p, config_type) ==
    LET o == open_write_file(f, p) IN
    IF o.res.tag = "Err" THEN o
    ELSE IF Encodable(r)
    THEN [res |-> OkUnit, fs |-> write_all(o.fs, p, Encode(config_type, r))]
    ELSE [res |-> SerializationError(config_type),
          fs |-> write_all(o.fs, p, Emitted(config_type, r))]

\* Toml, Ron: open_write_file(path)?.write_all(to_string_pretty(self)?): the
\* receiver is evaluated before the argument
store_open_then_string(f, r, p, config_type) ==
    LET o == open_write_file(f, p) IN
    IF o.res.tag = "Err" THEN o
    ELSE IF Encodable(r)
    THEN [res |-> OkUnit, fs |-> write_all(o.fs, p, Encode(config_type, r))]
    ELSE [res |-> SerializationError(config_type), fs |-> o.fs]

\* Xml: std::fs::write(path, to_string(self)?)
store_string_then_write(f, r, p, config_type) ==
    IF Encodable(r) THEN fs_write(f, p, Encode(config_type, r))
    ELSE [res |-> SerializationError(config_type), fs |-> f]

store_with_specific_format(f, r, p, config_type) ==
    IF config_type \notin EnabledFormats THEN [res |-> UnsupportedFormat, fs |-> f]
    ELSE CASE config_type \in {"Json", "Yaml"} -> store_to_writer(f, r, p, config_type)
           [] config_type \in {"Toml", "Ron"} -> store_open_then_string(f, r, p, config_type)
           [] config_type = "Xml" -> store_string_then_write(f, r, p, config_type)

store(f, r, p) ==
    IF from_path(p.name) = NoFormat THEN [res |-> UnsupportedFormat, fs |-> f]
    ELSE store_with_specific_format(f, r, p, from_path(p.name))

store_without_overwrite_unchecked(f, r, p) == store(f, r, p)

store_without_overwrite(f, r, p) ==
    IF exists(f, p) THEN [res |-> FileExists, fs |-> f]
    ELSE store(f, r, p)

(***************************************************************************)
(* The single caller: one call per step                                     *)
(***************************************************************************)
Call(op, p, F, r) == [op |-> op, path |-> p, fmt |-> F, rec |-> r]

NoCall == Call("none", DotPath, NoFormat, <<>>)

IdleProc == [pc |-> "idle", path |-> DotPath, rec |-> <<>>, res |-> OkUnit]

Procs == {1, 2}

NoExt == [fn |-> "none", arg |-> <<>>, ret |-> NoFormat]

\* contents a file may hold before the first call
InitialData ==
    {<<>>, <<"junk">>, <<"0xFF">>} \cup {Encode(F, Zeros(MaxTags)) : F \in {"Json", "Toml"}}

InitialNodes == {Absent} \cup {File(d) : d \in InitialData} \cup {Locked(<<"junk">>)}

\* the directory chain exists down to level dirs; with blocker, a regular
\* file sits where the next directory would be
InitialFs ==
    {f \in [node : [Paths -> InitialNodes], dirs : 0..MaxDepth, blocker : BOOLEAN] :
        /\ f.blocker => f.dirs < MaxDepth
        /\ \A p \in Paths : p.lvl > f.dirs => f.node[p] = Absent}

Init ==
    /\ fs \in InitialFs
    /\ call = NoCall
    /\ res = OkUnit
    /\ proc = [i \in Procs |-> IdleProc]
    /\ overlapped = FALSE
    /\ ext = NoExt

Done(c, o) ==
    /\ call' = c
    /\ res' = o.res
    /\ fs' = o.fs
    /\ UNCHANGED <<proc, overlapped, ext>>

LoadWithSpecificFormat ==
    \E p \in Paths, F \in ConfigFormat :
        Done(Call("load_with_specific_format", p, F, <<>>), load_with_specific_format(fs, p, F))

Load ==
    \E p \in Paths : Done(Call("load", p, NoFormat, <<>>), load(fs, p))

LoadOrDefault ==
    \E p \in Paths : Done(Call("load_or_default", p, NoFormat, <<>>), load_or_default(fs, p))

StoreWithSpecificFormat ==
    \E p \in Paths, F \in ConfigFormat, r \in Records :
        Done(Call("store_with_specific_format", p, F, r), store_with_specific_format(fs, r, p, F))

Store ==
    \E p \in Paths, r \in Records : Done(Call("store", p, NoFormat, r), store(fs, r, p))

StoreWithoutOverwrite ==
    \E p \in Paths, r \in Records :
        Done(Call("store_without_overwrite", p, NoFormat, r), store_without_overwrite(fs, r, p))

Next ==
    \/ LoadWithSpecificFormat
    \/ Load
    \/ LoadOrDefault
    \/ StoreWithSpecificFormat
    \/ Store
    \/ StoreWithoutOverwrite

Spec == Init /\ [][Next]_vars

(***************************************************************************)
(* Two concurrent callers of store_without_overwrite: the existence check   *)
(* and the store are separate filesystem operations                         *)
(***************************************************************************)
\* path.as_ref().exists() of caller i
Check(i) ==
    /\ proc[i].pc = "idle"
    /\ \E p \in Paths, r \in Records :
          proc' = [proc EXCEPT ![i] =
                      IF exists(fs, p)
                      THEN [pc |-> "done", path |-> p, rec |-> r, res |-> FileExists]
                      ELSE [pc |-> "checked", path |-> p, rec |-> r, res |-> OkUnit]]
    /\ overlapped' = (overlapped \/ \E j \in Procs \ {i} : proc[j].pc = "checked")
    /\ UNCHANGED <<fs, call, res, ext>>

\* self.store(path) of caller i, after its check found nothing
StoreAfterCheck(i) ==
    /\ proc[i].pc = "checked"
    /\ LET o == store(fs, proc[i].rec, proc[i].path) IN
          /\ fs' = o.fs
          /\ proc' = [proc EXCEPT ![i].pc = "done", ![i].res = o.res]
    /\ UNCHANGED <<call, res, overlapped, ext>>

NextRace ==
    \/ \E i \in Procs : Check(i)
    \/ \E i \in Procs : StoreAfterCheck(i)

SpecRace == Init /\ [][NextRace]_vars

(***************************************************************************)
(* The format resolver applied to extension strings and file names          *)
(***************************************************************************)
Words ==
    { <<"j","s","o","n">>, <<"t","o","m","l">>, <<"x","m","l">>, <<"y","a","m","l">>,
      <<"y","m","l">>, <<"r","o","n">>, <<"t","x","t">>, <<"j","s","o">>, <<>> }

Upper(c) == CHOOSE u \in DOMAIN LowerTable : LowerTable[u] = c

\* every spelling of w in upper and lower case letters
CaseVariants(w) ==
    {[i \in 1..Len(w) |-> IF b[i] THEN Upper(w[i]) ELSE w[i]] : b \in [1..Len(w) -> BOOLEAN]}

Extensions == UNION {CaseVariants(w) : w \in Words}

\* c.<e>, <e> alone, the dot file .<e>, and a.b.<e>
FileNames ==
    UNION {{<<"c", ".">> \o e, e, <<".">> \o e, <<"a", ".", "b", ".">> \o e} : e \in Extensions}
        \cup {<<".", ".">>}

InitExt ==
    /\ fs \in {f \in InitialFs : f.dirs = 0 /\ ~f.blocker}
    /\ call = NoCall
    /\ res = OkUnit
    /\ proc = [i \in Procs |-> IdleProc]
    /\ overlapped = FALSE
    /\ ext \in {[fn |-> "none", arg |-> a, ret |-> NoFormat] : a \in Extensions \cup FileNames}

FromExtension ==
    /\ ext' = [fn |-> "from_extension", arg |-> ext.arg, ret |-> from_extension(ext.arg)]
    /\ UNCHANGED <<fs, call, res, proc, overlapped>>

FromPath ==
    /\ ext' = [fn |-> "from_path", arg |-> ext.arg, ret |-> from_path(ext.arg)]
    /\ UNCHANGED <<fs, call, res, proc, overlapped>>

NextExt == FromExtension \/ FromPath

SpecExt == InitExt /\ [][NextExt]_vars

(***************************************************************************)
(* Properties                                                               *)
(***************************************************************************)
LoadOps == {"load", "load_with_specific_format", "load_or_default"}

\* the open of p fails with io::ErrorKind::NotFound
NotFoundAt(f, p) ==
    \/ p.lvl <= f.dirs /\ f.node[p] = Absent
    \/ p.lvl > f.dirs /\ ~f.blocker

\* C1: store_without_overwrite on a path that already exists, whatever its
\* extension and content, returns Err(FileExists) and leaves the whole
\* filesystem as it was.
C1_NoOverwrite ==
    [][(call'.op = "store_without_overwrite" /\ fs.node[call'.path] # Absent)
          => (res' = FileExists /\ fs' = fs)]_vars

\* C1 witness: the call was refused on an existing file of unsupported
\* extension, which still holds what it held.
C1_Witness ==
    /\ call.op = "store_without_overwrite"
    /\ call.path = DotPath
    /\ res = FileExists
    /\ fs.node[DotPath] = File(<<"junk">>)

\* C2: for every enabled format, store_with_specific_format on a path whose
\* parent chain is missing but can be created creates the directories and
\* then succeeds with the path existing as a file.
C2_DirectoryAutoCreation ==
    [][(/\ call'.op = "store_with_specific_format"
        /\ call'.fmt \in EnabledFormats
        /\ Encodable(call'.rec)
        /\ call'.path.lvl > fs.dirs
        /\ ~fs.blocker)
          => (/\ res' = OkUnit
              /\ fs'.dirs >= call'.path.lvl
              /\ fs'.node[call'.path].kind = "file")]_vars

C4_LoadOrDefault ==
    [][call'.op = "load_or_default" =>
          LET l == load(fs, call'.path).res
          IN /\ (l.tag = "Ok" /\ ~l.some) => res' = OkSome(DefaultRecord)
             /\ (l.tag = "Ok" /\ l.some) => res' = OkSome(l.val)
             /\ l.tag = "Err" => res' = l
             /\ (res'.tag = "Ok" /\ ~NotFoundAt(fs, call'.path))
                   => Decode(from_path(call'.path.name), fs.node[call'.path].data).ok]_vars

\* C4 witness: load_or_default handed on a deserialization failure.
C4_Witness ==
    /\ call.op = "load_or_default"
    /\ fs.node[call.path] = File(<<"junk">>)
    /\ res = DeserializationError("Json")

\* C5: on a path without a recognised extension, load and store return
\* Err(UnsupportedFormat) and leave the filesystem as it was, whether or not
\* the path exists.
C5_UnsupportedFormat ==
    [][(call'.op \in {"load", "store"} /\ from_path(call'.path.name) = NoFormat)
          => (res' = UnsupportedFormat /\ fs' = fs)]_vars

\* C5 witness: a store to the dot file was refused and its missing parent
\* directory was not created.
C5_Witness ==
    /\ call.op = "store"
    /\ call.path = DotPath
    /\ res = UnsupportedFormat
    /\ fs.dirs = 0

\* C6: after a successful store_with_specific_format (or store) the file
\* holds the encoding of the record and nothing else, and loading it right
\* away with the same format (or by extension) returns Ok(Some(record)).
C6_RoundTrip ==
    [][/\ (call'.op \in {"store_with_specific_format", "store"} /\ res' = OkUnit)
            => LET F == IF call'.op = "store" THEN from_path(call'.path.name) ELSE call'.fmt
               IN fs'.node[call'.path] = File(Encode(F, call'.rec))
       /\ (/\ call.op = "store_with_specific_format" /\ res = OkUnit
           /\ call'.op = "load_with_specific_format"
           /\ call'.path = call.path /\ call'.fmt = call.fmt)
            => res' = OkSome(call.rec)
       /\ (/\ call.op = "store" /\ res = OkUnit
           /\ call'.op = "load" /\ call'.path = call.path)
            => res' = OkSome(call.rec)]_vars

\* C6 witness: the dot file, which never held Yaml before, was loaded as Yaml
\* and gave a record.
C6_Witness ==
    /\ call.op = "load_with_specific_format"
    /\ call.path = DotPath
    /\ call.fmt = "Yaml"
    /\ res = OkSome(<<>>)

\* the format an extension in lower case names
Named(e) ==
    CASE e = <<"j","s","o","n">> -> "Json"
      [] e = <<"t","o","m","l">> -> "Toml"
      [] e = <<"x","m","l">> -> "Xml"
      [] e = <<"y","a","m","l">> -> "Yaml"
      [] e = <<"y","m","l">> -> "Yaml"
      [] e = <<"r","o","n">> -> "Ron"
      [] OTHER -> NoFormat

\* the splits of a file name into a non-empty stem, a '.', and a suffix
\* without '.'
Suffixes(name) ==
    {SubSeq(name, i + 1, Len(name)) : i \in {k \in 2..Len(name) :
        /\ name[k] = "."
        /\ \A j \in (k + 1)..Len(name) : name[j] # "."}}

\* C7: from_extension ignores case and maps json, toml, xml, yaml, yml, ron
\* to their formats and everything else to None; from_path is from_extension
\* of the final dot-suffix, and None for a name without extension.
C7_Resolver ==
    /\ ext.fn = "from_extension" =>
          /\ ext.ret = from_extension(to_lowercase(ext.arg))
          /\ ext.ret = Named(to_lowercase(ext.arg))
    /\ ext.fn = "from_path" =>
          /\ Suffixes(ext.arg) = {} => ext.ret = NoFormat
          /\ \A e \in Suffixes(ext.arg) : ext.ret = Named(to_lowercase(e))

\* C7 witness: a file name with an upper-case extension resolved to Toml.
C7_Witness ==
    /\ ext.fn = "from_path"
    /\ ext.arg = <<"c", ".", "T", "O", "M", "L">>
    /\ ext.ret = "Toml"

\* C8: a store that fails to encode the record leaves an already existing
\* target file with the content it had.
C8_NoPartialWrite ==
    [][(/\ call'.op \in {"store", "store_with_specific_format"}
        /\ fs.node[call'.path].kind = "file"
        /\ res'.tag = "Err"
        /\ res'.sub = "SerializationError")
          => fs'.node[call'.path] = fs.node[call'.path]]_vars

\* C9: a caller whose check found nothing stores even when the file exists
\* by then: it returns Ok and the file holds its record alone.  Two callers
\* both return Ok on one path only if their calls overlapped.
C9_CheckThenStore ==
    [][/\ \A i \in Procs :
             (/\ proc[i].pc = "checked" /\ proc'[i].pc = "done"
              /\ fs.node[proc[i].path] # Absent
              /\ from_path(proc[i].path.name) # NoFormat
              /\ Encodable(proc[i].rec))
                => /\ proc'[i].res = OkUnit
                   /\ fs'.node[proc[i].path] =
                         File(Encode(from_path(proc[i].path.name), proc[i].rec))
       /\ (/\ \A i \in Procs : proc'[i].pc = "done" /\ proc'[i].res = OkUnit
           /\ proc'[1].path = proc'[2].path)
             => overlapped']_vars

\* C9 witness: both callers returned Ok on the same path.
C9_Witness ==
    /\ \A i \in Procs : proc[i].pc = "done" /\ proc[i].res = OkUnit
    /\ proc[1].path = proc[2].path
    /\ proc[1].rec # proc[2].rec

\* C10: no load operation changes the filesystem, and the same load repeated
\* gives the same result.
C10_LoadsAreReadOnly ==
    [][call'.op \in LoadOps =>
          /\ fs' = fs
          /\ call' = call => res' = res]_vars

\* C10 witness: load_or_default returned the default for an absent file,
\* which is still absent.
C10_Witness ==
    /\ call.op = "load_or_default"
    /\ call.path = DeepPath
    /\ fs.dirs = MaxDepth
    /\ fs.node[DeepPath] = Absent
    /\ res = OkSome(DefaultRecord)

====
